---- MODULE Spec2Model ----
(***************************************************************************)
(* Model of gradio_app.py, the Gradio front-end that shells out to the     *)
(* pdf2html executable.                                                    *)
(*                                                                         *)
(* A Python str is modelled as a sequence of tokens (short TLA+ strings);  *)
(* concatenation is \o, "" is << >>.  The tokenisation keeps every piece   *)
(* the program tests for as a token of its own: the word "Error", the      *)
(* path separator "/", a file suffix such as ".pdf", a blank " ", and each *)
(* command-line flag.  Emoji and backticks are written as ASCII tags.     *)
(***************************************************************************)
EXTENDS Integers, Sequences, FiniteSets, TLC

VARIABLES pc, op, request, proc, fs, dir, cmd, launched, result, emitted, retval, raised

vars == <<pc, op, request, proc, fs, dir, cmd, launched, result, emitted, retval, raised>>

\* ------------------------------------------------------------------ bounds
MaxExit == 2
MaxPdfCount == 2

\* --------------------------------------------------------------- constants
PDF2HTML_SCRIPT == <<"/opt/pdf2html/pdf2html">>

FailMark == "[cross] "
WaitMark == "[hourglass] "
DoneMark == "[check] "
WarnMark == "[warning] "
EyeMark == "[eye] "
ChartMark == "[chart] "
PageMark == "[page] "
FolderMark == "[folder] "
\* the backtick and the code fence of Markdown
Tick == "[backtick]"
Fence == "[backtick][backtick][backtick]"

\* ------------------------------------------------------- string primitives
\* s.startswith(tok) for a one-token prefix
StartsWith(s, tok) == Len(s) > 0 /\ s[1] = tok

\* t in s: t is a contiguous piece of s
Contains(s, t) ==
    \E i \in 0..(Len(s) - Len(t)) : \A j \in 1..Len(t) : s[i + j] = t[j]

\* number of elements of the list xs equal to x
Count(xs, x) == Cardinality({i \in 1..Len(xs) : xs[i] = x})

RECURSIVE rstrip(_, _)
\* s.rstrip(ch)
rstrip(s, ch) ==
    IF s # << >> /\ s[Len(s)] = ch THEN rstrip(SubSeq(s, 1, Len(s) - 1), ch) ELSE s

RECURSIVE lstrip(_, _)
lstrip(s, ch) == IF s # << >> /\ s[1] = ch THEN lstrip(Tail(s), ch) ELSE s

\* s.strip(): whitespace is the blank token
strip(s) == rstrip(lstrip(s, " "), " ")

Digit == <<"0", "1", "2", "3", "4", "5", "6", "7", "8", "9">>

RECURSIVE Str(_)
\* str(n) / "%d" % n for n >= 0
Str(n) == IF n < 10 THEN <<Digit[n + 1]>> ELSE Str(n \div 10) \o <<Digit[(n % 10) + 1]>>

\* repr(s) of a str without quotes in it
ReprStr(s) == <<"'">> \o s \o <<"'">>

RECURSIVE ReprItems(_)
ReprItems(xs) ==
    IF xs = << >> THEN << >>
    ELSE IF Len(xs) = 1 THEN ReprStr(xs[1])
    ELSE ReprStr(xs[1]) \o <<", ">> \o ReprItems(Tail(xs))

\* "%s" % list_of_str
ReprList(xs) == <<"[">> \o ReprItems(xs) \o <<"]">>

RECURSIVE Join(_)
\* " ".join(parts)
Join(parts) ==
    IF parts = << >> THEN << >>
    ELSE IF Len(parts) = 1 THEN parts[1]
    ELSE parts[1] \o <<" ">> \o Join(Tail(parts))

\* ------------------------------------------------------------- subprocess
\* signal.Signals(n) repr for the signals the model delivers
SignalRepr(n) == IF n = 9 THEN <<"<Signals.SIGKILL: 9>">> ELSE <<"<Signals.SIGTERM: 15>">>

\* str(CalledProcessError(returncode, cmd))
CalledProcessErrorStr(c, rc) ==
    IF rc < 0
    THEN <<"Command '">> \o ReprList(c) \o <<"' died with ">> \o SignalRepr(-rc) \o <<".">>
    ELSE <<"Command '">> \o ReprList(c) \o <<"' returned non-zero exit status ">>
             \o Str(rc) \o <<".">>

\* What the external program does in one run: whether it could be started
\* at all, its exit status and the two captured streams.
Signals == {9}
ExitCodes == (0..MaxExit) \cup {-s : s \in Signals}
Stdouts == { << >>, <<"Converted", " ", "doc", ".pdf">>, <<"Error", ": ", "bad xref">> }
Stderrs == { << >>, <<"pdf2html", ": ", "cannot open input">> }
NoProc == [spawned |-> FALSE, rc |-> 0, stdout |-> << >>, stderr |-> << >>]
Runs == {NoProc} \cup [spawned : {TRUE}, rc : ExitCodes, stdout : Stdouts, stderr : Stderrs]

\* subprocess.run(c, capture_output=True, text=True, check=True)
subprocess_run(c, run) ==
    IF ~run.spawned THEN [exc |-> "FileNotFoundError", stdout |-> << >>, msg |-> << >>]
    ELSE IF run.rc # 0
    THEN [exc |-> "CalledProcessError", stdout |-> run.stdout,
          msg |-> CalledProcessErrorStr(c, run.rc)]
    ELSE [exc |-> "none", stdout |-> run.stdout, msg |-> << >>]

\* ------------------------------------------------------------ convert_pdf
\* convert_pdf_cmd with the default theme left out, as generate_command does
convert_pdf_cmd_skip_default_theme(pdf_path, output_dir, body_only, no_toc, theme) ==
    <<PDF2HTML_SCRIPT, pdf_path>>
      \o (IF output_dir # << >> THEN << <<"-o">>, output_dir >> ELSE << >>)
      \o (IF body_only THEN << <<"--body-only">> >> ELSE << >>)
      \o (IF no_toc THEN << <<"--no-toc">> >> ELSE << >>)
      \o (IF theme # << >> /\ theme # <<"modern">> THEN << <<"--theme">>, theme >> ELSE << >>)

\* convert_pdf_cmd with the no_toc branch appending the body-only flag
convert_pdf_cmd_flag_copied(pdf_path, output_dir, body_only, no_toc, theme) ==
    <<PDF2HTML_SCRIPT, pdf_path>>
      \o (IF output_dir # << >> THEN << <<"-o">>, output_dir >> ELSE << >>)
      \o (IF body_only THEN << <<"--body-only">> >> ELSE << >>)
      \o (IF no_toc THEN << <<"--body-only">> >> ELSE << >>)
      \o (IF theme # << >> THEN << <<"--theme">>, theme >> ELSE << >>)

\* the argument list convert_pdf builds
convert_pdf_cmd(pdf_path, output_dir, body_only, no_toc, theme) ==
    <<PDF2HTML_SCRIPT, pdf_path>>
      \o (IF output_dir # << >> THEN << <<"-o">>, output_dir >> ELSE << >>)
      \o (IF body_only THEN << <<"--body-only">> >> ELSE << >>)
      \o (IF no_toc THEN << <<"--no-toc">> >> ELSE << >>)
      \o (IF theme # << >> THEN << <<"--theme">>, theme >> ELSE << >>)

\* convert_pdf with the except branch returning the captured stdout
convert_pdf_raw_stdout(pdf_path, output_dir, body_only, no_toc, theme, run) ==
    LET c == convert_pdf_cmd(pdf_path, output_dir, body_only, no_toc, theme)
        r == subprocess_run(c, run) IN
    IF r.exc = "none" \/ r.exc = "CalledProcessError"
    THEN [cmd |-> c, ret |-> r.stdout, exc |-> "none"]
    ELSE [cmd |-> c, ret |-> << >>, exc |-> r.exc]

\* convert_pdf: stdout on success, "Error: <exception>" on CalledProcessError;
\* any other exception of subprocess.run propagates to the caller
convert_pdf(pdf_path, output_dir, body_only, no_toc, theme, run) ==
    LET c == convert_pdf_cmd(pdf_path, output_dir, body_only, no_toc, theme)
        r == subprocess_run(c, run) IN
    IF r.exc = "none" THEN [cmd |-> c, ret |-> r.stdout, exc |-> "none"]
    ELSE IF r.exc = "CalledProcessError"
    THEN [cmd |-> c, ret |-> <<"Error", ": ">> \o r.msg, exc |-> "none"]
    ELSE [cmd |-> c, ret |-> << >>, exc |-> r.exc]

\* --------------------------------------------------------- convert_folder
\* convert_folder_cmd with the output option ahead of the folder
convert_folder_cmd_output_first(folder_path, output_dir, body_only, no_toc, theme) ==
    <<PDF2HTML_SCRIPT, <<"-o">>, output_dir, folder_path, <<"--batch">> >>

\* the argument list convert_folder builds
convert_folder_cmd(folder_path, output_dir, body_only, no_toc, theme) ==
    <<PDF2HTML_SCRIPT, folder_path, <<"-o">>, output_dir, <<"--batch">> >>

convert_folder(folder_path, output_dir, body_only, no_toc, theme, run) ==
    LET c == convert_folder_cmd(folder_path, output_dir, body_only, no_toc, theme)
        r == subprocess_run(c, run) IN
    IF r.exc = "none" THEN [cmd |-> c, ret |-> r.stdout, exc |-> "none"]
    ELSE IF r.exc = "CalledProcessError"
    THEN [cmd |-> c, ret |-> <<"Error", ": ">> \o r.msg, exc |-> "none"]
    ELSE [cmd |-> c, ret |-> << >>, exc |-> r.exc]

\* ------------------------------------------------------------------ pathlib
\* A path is [abs, parts]: parts are the components, each a string.
RECURSIVE SplitSlash(_, _)
\* the "/"-separated pieces of s, cur being the piece under construction
SplitSlash(s, cur) ==
    IF s = << >> THEN <<cur>>
    ELSE IF s[1] = "/" THEN <<cur>> \o SplitSlash(Tail(s), << >>)
    ELSE SplitSlash(Tail(s), Append(cur, s[1]))

\* Path(s): empty and "." components are dropped
Path(s) ==
    [abs |-> StartsWith(s, "/"),
     parts |-> SelectSeq(SplitSlash(s, << >>), LAMBDA c : c # << >> /\ c # <<".">>)]

\* p / s: an absolute right operand replaces the left one
PathDiv(p, s) ==
    LET q == Path(s) IN
    IF q.abs THEN q ELSE [abs |-> p.abs, parts |-> p.parts \o q.parts]

RECURSIVE JoinSlash(_)
JoinSlash(parts) ==
    IF parts = << >> THEN << >>
    ELSE IF Len(parts) = 1 THEN parts[1]
    ELSE parts[1] \o <<"/">> \o JoinSlash(Tail(parts))

\* str(p)
PathStr(p) ==
    IF p.parts = << >> THEN (IF p.abs THEN <<"/">> ELSE <<".">>)
    ELSE (IF p.abs THEN <<"/">> ELSE << >>) \o JoinSlash(p.parts)

SuffixTokens == {".pdf", ".PDF", ".html"}

\* p.stem: the last component without its last suffix
PathStem(p) ==
    IF p.parts = << >> THEN << >>
    ELSE LET name == p.parts[Len(p.parts)] IN
         IF Len(name) > 1 /\ name[Len(name)] \in SuffixTokens
         THEN SubSeq(name, 1, Len(name) - 1) ELSE name

\* f"{size / 1024:.1f}": one decimal, ties to even
FormatKB(size) ==
    LET q == (size * 10) \div 1024
        r == (size * 10) % 1024
        tenths == IF r > 512 \/ (r = 512 /\ q % 2 = 1) THEN q + 1 ELSE q IN
    Str(tenths \div 10) \o <<".">> \o Str(tenths % 10)

\* --------------------------------------------------------- handle_convert
\* the uploaded file object: None is [present |-> FALSE]
FileObj(source) == [present |-> source # << >>, name |-> source]

\* the output file the preview looks for
FileSizes == {0, 256, 1536}
PreviewContent == <<"<h1>", "doc", "</h1>">>
NoFs == [state |-> "unused", size |-> 0]
FsStates == [state : {"missing"}, size : {0}]
              \cup [state : {"unreadable", "readable"}, size : FileSizes]

\* output_file of handle_convert
output_file(pdf_path, output_dir) ==
    LET output_dir_path == rstrip(output_dir, "/") IN
    PathDiv(PathDiv(Path(output_dir_path),
                    IF output_dir_path # << >> THEN output_dir_path ELSE <<"output">>),
            PathStem(Path(pdf_path)) \o <<".html">>)

ReadingStatus == <<WaitMark, "Reading PDF...">>

CompleteStatus(file, size) ==
    <<"\n", DoneMark, "Conversion complete!", "\n\n", PageMark, "Output: ", Tick>>
      \o PathStr(file) \o <<Tick, "\n", ChartMark, "File size: ">> \o FormatKB(size)
      \o <<" KB\n\nPreview will appear below...\n        ">>

\* The generator handle_convert: emitted is the list of yielded statuses,
\* retval the value of a return statement (carried by StopIteration, not
\* yielded), raised the exception that leaves the generator.
handle_convert(pdf_file, output_dir, body_only, no_toc, theme, run, f) ==
    LET none == [emitted |-> << >>, retval |-> << >>, raised |-> "none", cmd |-> << >>,
                 result |-> << >>, statted |-> FALSE] IN
    IF ~pdf_file.present
    THEN [none EXCEPT !.retval = <<FailMark, "No PDF file selected">>]
    ELSE
      LET pdf_path == pdf_file.name
          r == convert_pdf(pdf_path, output_dir, body_only, no_toc, theme, run)
          h == [none EXCEPT !.cmd = r.cmd, !.result = r.ret]
          file == output_file(pdf_path, output_dir) IN
      IF r.exc # "none"
      THEN [h EXCEPT !.emitted = <<ReadingStatus>>, !.raised = r.exc]
      ELSE IF StartsWith(r.ret, "Error")
      THEN [h EXCEPT !.emitted = <<ReadingStatus, <<FailMark>> \o r.ret>>]
      ELSE IF f.state = "missing"
      THEN [h EXCEPT !.emitted = <<ReadingStatus>>, !.raised = "FileNotFoundError",
                     !.statted = TRUE]
      ELSE IF f.state = "unreadable"
      THEN [h EXCEPT !.statted = TRUE,
                     !.emitted = <<ReadingStatus, CompleteStatus(file, f.size),
                                   <<WarnMark, "Could not read preview: ",
                                     "[Errno 13] Permission denied: ">>
                                     \o ReprStr(PathStr(file))>>]
      ELSE [h EXCEPT !.statted = TRUE,
                     !.emitted = <<ReadingStatus, CompleteStatus(file, f.size),
                                   <<"\n", EyeMark>> \o PreviewContent>>]

\* ----------------------------------------------------------- handle_batch
\* what the filesystem says about the folder
NoDir == [isdir |-> FALSE, listable |-> FALSE, pdf_count |-> 0]
DirStates == {NoDir} \cup [isdir : {TRUE}, listable : {FALSE}, pdf_count : {0}]
               \cup [isdir : {TRUE}, listable : {TRUE}, pdf_count : 0..MaxPdfCount]

BatchCompleteStatus(folder, pdf_count, output_dir) ==
    <<"\n", DoneMark, "Batch conversion complete!", "\n\n", FolderMark, "Folder: ">>
      \o folder \o <<"\n", ChartMark, "Processed: ">> \o Str(pdf_count)
      \o <<" files\n", FolderMark, "Output: ">> \o output_dir
      \o <<"/index.html", "\n\nYou can now deploy this directory to Vercel.\n            ">>

\* The generator handle_batch, same result shape as handle_convert.
handle_batch(folder_path, output_dir, body_only, no_toc, theme, d, run) ==
    LET none == [emitted |-> << >>, retval |-> << >>, raised |-> "none", cmd |-> << >>,
                 result |-> << >>, listed |-> FALSE]
        folder == strip(folder_path) IN
    IF folder_path = << >>
    THEN [none EXCEPT !.retval = <<FailMark, "No folder path provided">>]
    ELSE IF ~d.isdir
    THEN [none EXCEPT !.retval = <<FailMark, "Folder not found: ">> \o folder]
    ELSE IF ~d.listable
    THEN [none EXCEPT !.listed = TRUE,
                      !.emitted = << <<WaitMark, "Scanning folder...">>,
                                     <<FailMark, "Batch error: ",
                                       "[Errno 13] Permission denied: ">>
                                       \o ReprStr(PathStr(Path(folder))) >>]
    ELSE
      LET r == convert_folder(folder, output_dir, body_only, no_toc, theme, run)
          progress == << <<WaitMark, "Scanning folder...">>,
                         <<ChartMark, "Found ">> \o Str(d.pdf_count) \o <<" PDF files">>,
                         <<WaitMark, "Starting batch conversion...">> >>
          h == [none EXCEPT !.listed = TRUE, !.cmd = r.cmd, !.result = r.ret] IN
      IF r.exc # "none"
      THEN [h EXCEPT !.emitted = Append(progress,
                <<FailMark, "Batch error: ", "[Errno 2] No such file or directory: ">>
                  \o ReprStr(PDF2HTML_SCRIPT))]
      ELSE IF StartsWith(r.ret, "Error")
      THEN [h EXCEPT !.emitted = Append(progress, <<FailMark>> \o r.ret)]
      ELSE [h EXCEPT !.emitted =
                Append(progress, BatchCompleteStatus(folder, d.pdf_count, output_dir))]

\* ------------------------------------------------------- generate_command
\* generate_command_parts with the theme test of convert_pdf
generate_command_parts_theme_always(pdf_file, output_dir, body_only, no_toc, theme) ==
    << <<"/opt/pdf2html/pdf2html">> >>
      \o (IF pdf_file.present THEN <<pdf_file.name>> ELSE << >>)
      \o (IF output_dir # << >> /\ output_dir # <<"output", "/">>
          THEN << <<"-o">>, output_dir >> ELSE << >>)
      \o (IF body_only THEN << <<"--body-only">> >> ELSE << >>)
      \o (IF no_toc THEN << <<"--no-toc">> >> ELSE << >>)
      \o (IF theme # << >> THEN << <<"--theme">>, theme >> ELSE << >>)

\* the token list generate_command builds
generate_command_parts(pdf_file, output_dir, body_only, no_toc, theme) ==
    << <<"/opt/pdf2html/pdf2html">> >>
      \o (IF pdf_file.present THEN <<pdf_file.name>> ELSE << >>)
      \o (IF output_dir # << >> /\ output_dir # <<"output", "/">>
          THEN << <<"-o">>, output_dir >> ELSE << >>)
      \o (IF body_only THEN << <<"--body-only">> >> ELSE << >>)
      \o (IF no_toc THEN << <<"--no-toc">> >> ELSE << >>)
      \o (IF theme # << >> /\ theme # <<"modern">>
          THEN << <<"--theme">>, theme >> ELSE << >>)

generate_command(pdf_file, output_dir, body_only, no_toc, theme) ==
    <<Fence, "bash\n">>
      \o Join(generate_command_parts(pdf_file, output_dir, body_only, no_toc, theme))
      \o <<"\n", Fence>>

\* ---------------------------------------------------------------- requests
Sources == { << >>, <<"doc", ".pdf">>, <<"/", "data", "/", "pdfs">>, <<" ", "docs", " ">> }
OutputDirs == { << >>, <<"output", "/">>, <<"/", "srv", "/", "site">> }
Themes == { << >>, <<"modern">>, <<"minimal">> }
Requests == [source : Sources, output_dir : OutputDirs, body_only : BOOLEAN,
             no_toc : BOOLEAN, theme : Themes]

Init ==
    /\ pc = "ready"
    /\ op = "none"
    /\ request \in Requests
    /\ proc = NoProc
    /\ fs = NoFs
    /\ dir = NoDir
    /\ cmd = << >>
    /\ launched = 0
    /\ result = << >>
    /\ emitted = << >>
    /\ retval = << >>
    /\ raised = "none"

\* 1 when the external process was started by the call of subprocess.run
Started(run) == IF run.spawned THEN 1 ELSE 0

\* a direct call convert_pdf(source, output_dir, body_only, no_toc, theme)
ConvertPdf ==
    /\ pc = "ready"
    /\ \E run \in Runs :
         LET r == convert_pdf(request.source, request.output_dir, request.body_only,
                              request.no_toc, request.theme, run) IN
         /\ proc' = run
         /\ cmd' = r.cmd
         /\ launched' = Started(run)
         /\ result' = r.ret
         /\ raised' = r.exc
    /\ pc' = "done"
    /\ op' = "convert_pdf"
    /\ UNCHANGED <<request, fs, dir, emitted, retval>>

\* a direct call convert_folder(source, output_dir, body_only, no_toc, theme)
ConvertFolder ==
    /\ pc = "ready"
    /\ \E run \in Runs :
         LET r == convert_folder(request.source, request.output_dir, request.body_only,
                                 request.no_toc, request.theme, run) IN
         /\ proc' = run
         /\ cmd' = r.cmd
         /\ launched' = Started(run)
         /\ result' = r.ret
         /\ raised' = r.exc
    /\ pc' = "done"
    /\ op' = "convert_folder"
    /\ UNCHANGED <<request, fs, dir, emitted, retval>>

\* the Convert button: the generator handle_convert run to its end
HandleConvert ==
    /\ pc = "ready"
    /\ \E run \in Runs, f \in FsStates :
         LET h == handle_convert(FileObj(request.source), request.output_dir,
                                 request.body_only, request.no_toc, request.theme,
                                 run, f) IN
         /\ proc' = (IF h.cmd # << >> THEN run ELSE NoProc)
         /\ fs' = (IF h.statted THEN f ELSE NoFs)
         /\ cmd' = h.cmd
         /\ launched' = (IF h.cmd # << >> THEN Started(run) ELSE 0)
         /\ result' = h.result
         /\ emitted' = h.emitted
         /\ retval' = h.retval
         /\ raised' = h.raised
    /\ pc' = "done"
    /\ op' = "handle_convert"
    /\ UNCHANGED <<request, dir>>

\* the Batch Convert button: the generator handle_batch run to its end
\* (os.path.isdir("") is False)
HandleBatch ==
    /\ pc = "ready"
    /\ \E run \in Runs, d \in DirStates :
         LET h == handle_batch(request.source, request.output_dir, request.body_only,
                               request.no_toc, request.theme, d, run) IN
         /\ strip(request.source) = << >> => ~d.isdir
         /\ dir' = (IF request.source # << >> /\ (h.listed \/ ~d.isdir) THEN d ELSE NoDir)
         /\ proc' = (IF h.cmd # << >> THEN run ELSE NoProc)
         /\ cmd' = h.cmd
         /\ launched' = (IF h.cmd # << >> THEN Started(run) ELSE 0)
         /\ result' = h.result
         /\ emitted' = h.emitted
         /\ retval' = h.retval
         /\ raised' = h.raised
    /\ pc' = "done"
    /\ op' = "handle_batch"
    /\ UNCHANGED <<request, fs>>

\* the Copy Commands button
GenerateCommand ==
    /\ pc = "ready"
    /\ result' = generate_command(FileObj(request.source), request.output_dir,
                                  request.body_only, request.no_toc, request.theme)
    /\ pc' = "done"
    /\ op' = "generate_command"
    /\ UNCHANGED <<request, proc, fs, dir, cmd, launched, emitted, retval, raised>>

Next ==
    \/ ConvertPdf
    \/ ConvertFolder
    \/ HandleConvert
    \/ HandleBatch
    \/ GenerateCommand

Spec == Init /\ [][Next]_vars

\* ================================================================== claims
Done(o) == pc = "done" /\ op = o

\* the external process ran and ended with a non-zero status
ExitedNonZero == proc.spawned /\ proc.rc # 0
ExitedZero == proc.spawned /\ proc.rc = 0

\* the list xs holds a followed directly by b
HasPair(xs, a, b) == \E i \in 1..(Len(xs) - 1) : xs[i] = a /\ xs[i + 1] = b

IsFailureStatus(s) == StartsWith(s, FailMark)
IsCompleteStatus(s) ==
    Contains(s, <<DoneMark, "Conversion complete!">>)
      \/ Contains(s, <<DoneMark, "Batch conversion complete!">>)
IsWarningStatus(s) == StartsWith(s, WarnMark)

ReportedFailed == \E i \in 1..Len(emitted) : IsFailureStatus(emitted[i])
ReportedComplete == \E i \in 1..Len(emitted) : IsCompleteStatus(emitted[i])

\* C1: when the external process exits non-zero, convert_pdf and
\* convert_folder return a string that starts with "Error", that is the
\* text of the exception and not the captured stdout.
C1_NonZeroExitYieldsErrorResult ==
    (Done("convert_pdf") \/ Done("convert_folder")) /\ ExitedNonZero =>
        /\ raised = "none"
        /\ StartsWith(result, "Error")
        /\ result = <<"Error", ": ">> \o CalledProcessErrorStr(cmd, proc.rc)
        /\ result # proc.stdout

C1_Witness ==
    /\ Done("convert_pdf")
    /\ ExitedNonZero
    /\ StartsWith(proc.stdout, "Error")
    /\ StartsWith(result, "Error")
    /\ result # proc.stdout

\* C2: when the external process exits non-zero, the result returned by
\* convert_pdf and convert_folder contains the captured stderr text and the
\* captured stdout text.
C2_ErrorResultCarriesDiagnostics ==
    (Done("convert_pdf") \/ Done("convert_folder")) /\ ExitedNonZero =>
        Contains(result, proc.stderr) /\ Contains(result, proc.stdout)

\* C3: handle_batch on a non-empty folder path that is not a directory emits
\* at least one status beginning with the failure marker, and neither
\* convert_folder nor the external process is started.
C3_MissingFolderReportedWithoutLaunch ==
    Done("handle_batch") /\ request.source # << >> /\ ~dir.isdir =>
        ReportedFailed /\ cmd = << >> /\ launched = 0

\* C4: after an exit status of zero, when the derived output file is missing
\* or unreadable, handle_convert emits the conversion-complete status, then
\* a warning, and no exception leaves it.
C4_PreviewFailureIsWarning ==
    Done("handle_convert") /\ ExitedZero /\ fs.state \in {"missing", "unreadable"} =>
        /\ raised = "none"
        /\ \E i, j \in 1..Len(emitted) :
             i < j /\ IsCompleteStatus(emitted[i]) /\ IsWarningStatus(emitted[j])

\* C5: the argument list of a batch run holds the source path, -o with the
\* output directory, --body-only exactly when body_only is set, --no-toc
\* exactly when no_toc is set, --theme <name> for a non-default theme, and
\* --batch.
C5_BatchForwardsOptionFlags ==
    (Done("convert_folder") \/ Done("handle_batch")) /\ launched = 1 =>
        /\ HasPair(cmd, <<"-o">>, request.output_dir)
        /\ Count(cmd, <<"--body-only">>) > 0 <=> request.body_only
        /\ Count(cmd, <<"--no-toc">>) > 0 <=> request.no_toc
        /\ request.theme \notin {<< >>, <<"modern">>} =>
             HasPair(cmd, <<"--theme">>, request.theme)
        /\ Count(cmd, <<"--batch">>) > 0

\* C6: with theme "modern" the command preview of generate_command has no
\* --theme flag while the argument list of convert_pdf holds --theme modern;
\* with any other non-empty theme both hold --theme <name>.
C6_DefaultThemeOnlyInInvocation ==
    /\ (Done("convert_pdf") \/ (Done("handle_convert") /\ cmd # << >>))
         /\ request.theme # << >> =>
           /\ HasPair(cmd, <<"--theme">>, request.theme)
           /\ Count(cmd, <<"--theme">>) = 1
    /\ Done("generate_command") /\ request.theme = <<"modern">> =>
           Count(result, "--theme") = 0
    /\ Done("generate_command") /\ request.theme \notin {<< >>, <<"modern">>} =>
           /\ Contains(result, <<"--theme", " ">> \o request.theme)
           /\ Count(result, "--theme") = 1

C6_Witness ==
    /\ Done("generate_command")
    /\ request.theme = <<"modern">>
    /\ request.body_only
    /\ Contains(result, <<"--body-only">>)
    /\ ~Contains(result, <<"--theme">>)

ExampleRequest ==
    [source |-> <<"doc", ".pdf">>, output_dir |-> <<"output", "/">>,
     body_only |-> TRUE, no_toc |-> FALSE, theme |-> <<"modern">>]

\* C7 (as stated): for the example request the arguments after the executable
\* path are exactly doc.pdf, -o, output/, --body-only.
C7_ExampleArgumentsAsStated ==
    Done("convert_pdf") /\ request = ExampleRequest =>
        Tail(cmd) = << <<"doc", ".pdf">>, <<"-o">>, <<"output", "/">>, <<"--body-only">> >>

\* C7 (amended): for the example request the arguments after the executable
\* path are exactly doc.pdf, -o, output/, --body-only, --theme, modern.
C7_ExampleArguments ==
    Done("convert_pdf") /\ request = ExampleRequest =>
        Tail(cmd) = << <<"doc", ".pdf">>, <<"-o">>, <<"output", "/">>, <<"--body-only">>,
                       <<"--theme">>, <<"modern">> >>

C7_Witness ==
    Done("convert_pdf") /\ request = ExampleRequest /\ Len(cmd) = 7 /\ launched = 1

\* C8: the argument list of convert_pdf and the preview of generate_command
\* hold --body-only once when body_only is set and not at all otherwise, and
\* --no-toc once when no_toc is set and not at all otherwise.
C8_OneTokenPerFlag ==
    /\ (Done("convert_pdf") \/ (Done("handle_convert") /\ cmd # << >>)) =>
           /\ Count(cmd, <<"--body-only">>) = (IF request.body_only THEN 1 ELSE 0)
           /\ Count(cmd, <<"--no-toc">>) = (IF request.no_toc THEN 1 ELSE 0)
    /\ Done("generate_command") =>
           /\ Count(result, "--body-only") = (IF request.body_only THEN 1 ELSE 0)
           /\ Count(result, "--no-toc") = (IF request.no_toc THEN 1 ELSE 0)

C8_Witness ==
    /\ Done("convert_pdf")
    /\ ~request.body_only
    /\ request.no_toc
    /\ Count(cmd, <<"--no-toc">>) = 1
    /\ Count(cmd, <<"--body-only">>) = 0

\* C9: in convert_pdf and convert_folder the element right after the
\* executable path is the source path.
C9_SourcePathFirst ==
    (Done("convert_pdf") \/ Done("convert_folder")) =>
        /\ Len(cmd) >= 2
        /\ cmd[1] = PDF2HTML_SCRIPT
        /\ cmd[2] = request.source

C9_Witness ==
    /\ Done("convert_folder")
    /\ request.source = <<"/", "data", "/", "pdfs">>
    /\ request.output_dir # << >>
    /\ cmd[2] = request.source

\* C10: handle_convert and handle_batch report a run as failed exactly when
\* the external process exited non-zero: exit status zero gives the complete
\* status and no failure status, a non-zero status gives the failure status
\* and no complete status.  (Runs of handle_convert whose output file is
\* missing are left to C4.)
C10_FailureReportedIffNonZeroExit ==
    (Done("handle_convert") \/ Done("handle_batch")) /\ proc.spawned
      /\ fs.state # "missing" =>
        /\ proc.rc = 0 => ReportedComplete /\ ~ReportedFailed
        /\ proc.rc # 0 => ReportedFailed /\ ~ReportedComplete
====
